---- MODULE Spec2Model ----
(***************************************************************************)
(* The request/auth dispatcher of the MangoPay Node.js SDK (lib/api.js):   *)
(* Api.prototype.method, _requestApi, authorize and isExpired, driven by   *)
(* an arbitrary token endpoint and an arbitrary resource server.           *)
(*                                                                         *)
(* Node runs one handler at a time and the promise library runs the       *)
(* then-callbacks of a settled promise before any further I/O event, so    *)
(* one action is one I/O handler together with the promise continuations   *)
(* it schedules.                                                           *)
(*                                                                         *)
(* Authorization and path are the headers.Authorization and the path of    *)
(* Api.prototype.requestOptions, which every client instance reads and     *)
(* writes; authorizationExpireTime and rateLimits are the fields of the    *)
(* client, and other holds those fields of a second client.                *)
(***************************************************************************)
EXTENDS Integers, Sequences, FiniteSets, TLC

VARIABLES now, Authorization, authorizationExpireTime, lastGrant, call, rateLimits, built,
          path, other

vars == <<now, Authorization, authorizationExpireTime, lastGrant, call, rateLimits, built,
          path, other>>

----------------------------------------------------------------------------
(* Bounds of the model.                                                    *)

\* the clock advances in ticks of the expiry margin, at most MaxTicks times
MaxTicks == 2
\* per call, authorize() invocations are counted exactly up to MaxCount
MaxCount == 2
\* longest list payload a resource response carries
MaxLen == 2

(* Program constant: the expiry margin of isExpired, in ms.                *)
THRESHOLD == 60000

\* The calls in flight at a time: the call under observation and one concurrent
\* call.  Calls act on each other only through the stored token, a settled call
\* is followed by a fresh one (Return), and a token response may carry any
\* token whichever call asked for it, so one concurrent caller produces every
\* sequence of token changes that any number of callers can produce.
Calls == {1, 2}
TickStep == THRESHOLD

----------------------------------------------------------------------------
(* JavaScript values.                                                      *)

\* the value of an absent property
Undefined == "<undefined>"

\* a number, or NaN
Num(v) == [isNaN |-> FALSE, val |-> v]
NaN == [isNaN |-> TRUE, val |-> 0]

\* truthiness of a string-or-undefined value
IsTruthy(s) == s # Undefined /\ s # ""

\* a decoded JSON array (val: its elements) and a decoded JSON object (val: the
\* object, as a sequence of one)
Arr(s) == [type |-> "array", val |-> s]
Obj(x) == [type |-> "object", val |-> <<x>>]
ObjectOf(d) == d.val[1]
isArray(d) == d.type = "array"

\* a value of type string (a transport error's message)
Str(x) == [type |-> "string", val |-> x]

\* an Error object with its message
Error(message) == [type |-> "error", val |-> message]

\* the response object once _requestApi has put the decoded body on it
Response(statusCode, data) == [type |-> "response", statusCode |-> statusCode, body |-> data]

\* new dataClass(dataItem)
ModelWithoutId(dataClass, dataItem) ==
    [type |-> "model", class |-> dataClass, from |-> [dataItem EXCEPT !.Id = Undefined]]

Model(dataClass, dataItem) == [type |-> "model", class |-> dataClass, from |-> dataItem]

----------------------------------------------------------------------------
(* What the environment may supply.                                        *)

\* decoded entities: one as the service returns it, one error document
Items == { [Id |-> "a", Message |-> Undefined], [Id |-> Undefined, Message |-> "refused"] }

SeqsUpTo(S, n) == UNION { [1 .. k -> S] : k \in 0 .. n }

\* decoded bodies of resource responses: lists and single objects
Payloads == { Arr(s) : s \in SeqsUpTo(Items, MaxLen) } \cup { Obj(x) : x \in Items }

\* statuses of resource responses
Statuses == {200, 299, 401, 500}

\* token responses that carry both fields: a lifetime (expires_in, in seconds)
\* beyond the expiry margin, one inside it, and none (ToNumber(undefined) is NaN);
\* and token responses that lack a field
TokenResponses ==
    { [token_type |-> "bearer", access_token |-> "tokA", expires_in |-> Num(120)],
      [token_type |-> "bearer", access_token |-> "tokB", expires_in |-> Num(30)],
      [token_type |-> "bearer", access_token |-> "tokC", expires_in |-> NaN],
      [token_type |-> Undefined, access_token |-> "tokD", expires_in |-> Num(120)],
      [token_type |-> "bearer", access_token |-> Undefined, expires_in |-> Num(120)] }

\* the headers object a caller passes in options.headers: none, or an object
\* with or without Content-Type and with or without Authorization
NoHeaders == [own |-> FALSE]
CallerHeaders ==
    {NoHeaders} \cup [own : {TRUE}, ContentType : {Undefined, "text/plain"},
                      Authorization : {Undefined, "Basic caller"}]

\* what a caller passes in options.data: nothing, a plain object, a model
\* instance, or an object that has a toJSON method
DataKinds == {"none", "plain", "model", "toJSON"}

\* the path parameters a caller passes in options.path: none, or an object
\* that names the entity
NoPath == [own |-> FALSE]
PathTo(id) == [own |-> TRUE, Id |-> id, clientId |-> Undefined]
CallerPaths == {NoPath, PathTo("a")}

\* the options a caller passes to method()
\* a manual 'get' names its url, a call to a registered endpoint does not
Methods == {"PayIns_GetRefunds", "get"}
ManualUrl == "/v2.01/first/refunds"
Options ==
    { o \in [method : Methods, dataClass : {Undefined, "Refund"},
             resolveWithFullResponse : BOOLEAN, callback : BOOLEAN, headers : CallerHeaders,
             data : DataKinds, path : CallerPaths, url : {Undefined, ManualUrl}] :
        (o.url = ManualUrl) <=> (o.method = "get") }

\* the options of a call that names no method, or no url for a manual request
InvalidOptions ==
    { o \in [method : {Undefined, "post", "get", "put"}, dataClass : {Undefined},
             resolveWithFullResponse : {FALSE}, callback : BOOLEAN, headers : {NoHeaders},
             data : {"none"}, path : {NoPath}, url : {Undefined, ManualUrl}] :
        o.method = Undefined \/ o.url = Undefined }

\* the configuration of the client, and of a second client constructed in the
\* same process
FirstConfig == [clientId |-> "first"]
SecondConfig == [clientId |-> "second"]

----------------------------------------------------------------------------
(* Objects with named properties: entities and request bodies.              *)

\* own keys of an entity, in the order _.keys lists them, and the keys of the
\* serialized form of a nested object
KeyOrder == <<"Id", "Tag", "PaymentDetails", "ExecutionDetails", "MeanOfPaymentDetails", "Details">>
EntityKeys == { KeyOrder[i] : i \in 1 .. Len(KeyOrder) }
NestedKeys == {"PaymentDetails", "ExecutionDetails", "MeanOfPaymentDetails", "Details"}
JsonKeys == {"Id", "CardId"}

\* the value of a property: none, a scalar, or an object that serializes to json
Absent == [kind |-> "absent"]
Scalar(v) == [kind |-> "scalar", v |-> v]
Nested(json) == [kind |-> "object", json |-> json]

\* the properties of an object: a function on the keys it has
NoFields == [k \in {} |-> Absent]
Has(fields, k) == k \in DOMAIN fields

\* the serialized forms a nested object under key k may have: each value tells
\* the nested object it comes from
NestedForms(k) ==
    { [j \in JsonKeys |-> IF j \in S THEN k \o "." \o j ELSE Undefined] :
        S \in (SUBSET JsonKeys) \ {{}} }

ScalarOrAbsent(k) == {Absent, Scalar(k)}
NestedOrAbsent(k) == {Absent} \cup { Nested(j) : j \in NestedForms(k) }

\* the model classes and what getReadOnlyProperties() may list
Classes == {"PayIn", "PayOut", "BankAccount", "Wallet"}
ReadOnlySets == { {}, {"Id"}, {"Id", "Tag"}, {"Id", "PaymentDetails"} }

EntityFields ==
    { [k \in EntityKeys |->
          CASE k = "Id" -> id
            [] k = "Tag" -> tag
            [] k = "PaymentDetails" -> pd
            [] k = "ExecutionDetails" -> ed
            [] k = "MeanOfPaymentDetails" -> mp
            [] OTHER -> de] :
        id \in ScalarOrAbsent("Id"), tag \in ScalarOrAbsent("Tag"),
        pd \in NestedOrAbsent("PaymentDetails"), ed \in NestedOrAbsent("ExecutionDetails"),
        mp \in NestedOrAbsent("MeanOfPaymentDetails"), de \in NestedOrAbsent("Details") }

Entities == [class : Classes, readOnly : ReadOnlySets, fields : EntityFields]

\* the entity a caller passes as options.data, and the fields of a caller's
\* plain object
SampleEntity ==
    [class |-> "PayIn", readOnly |-> {"Id"},
     fields |-> [k \in EntityKeys |->
                   CASE k \in {"Id", "Tag"} -> Scalar(k)
                     [] k = "PaymentDetails" ->
                          Nested([j \in JsonKeys |-> IF j = "CardId" THEN k \o "." \o j ELSE Undefined])
                     [] OTHER -> Absent]]
PlainFields == [k \in {"Tag"} |-> Scalar(k)]

\* what the toJSON method of a caller's object returns
JsonFields == [k \in {"CardId"} |-> Scalar("toJSON." \o k)]

----------------------------------------------------------------------------
(* Text: a string as the sequence of its characters.                       *)

DigitChar == <<"0", "1", "2", "3", "4", "5", "6", "7", "8", "9">>
Digits == { DigitChar[i] : i \in 1 .. 10 }
DigitValue(ch) == (CHOOSE i \in 1 .. 10 : DigitChar[i] = ch) - 1

\* the decimal numeral of a natural number
RECURSIVE Decimal(_)
Decimal(n) ==
    IF n < 10 THEN <<DigitChar[n + 1]>>
    ELSE Decimal(n \div 10) \o <<DigitChar[(n % 10) + 1]>>

\* the numerals of a tuple joined by sep: how the server writes a rate-limit header
RECURSIVE Join(_, _)
Join(t, sep) ==
    IF Len(t) = 0 THEN <<>>
    ELSE IF Len(t) = 1 THEN Decimal(t[1])
    ELSE Decimal(t[1]) \o sep \o Join(Tail(t), sep)

CommaSpace == <<",", " ">>
Comma == <<",">>

\* a header value: absent, a string, or a value that is not a string
NoHeader == [kind |-> "undefined"]
Text(chars) == [kind |-> "string", chars |-> chars]
NonString == [kind |-> "nonString"]

\* the 4-tuples (15m, 30m, 60m, 24h) a server reports
RateTuples == { <<1, 2, 3, 4>>, <<12, 0, 7, 30>> }

\* the values of one rate-limit header: absent, a 4-tuple as the server writes
\* it, and values that are not: commas without spaces, two elements, a negative
\* element, an element that is no numeral, the empty string, not a string
HeaderValues ==
    {NoHeader, NonString}
        \cup { Text(Join(t, CommaSpace)) : t \in RateTuples }
        \cup { Text(Join(<<1, 2, 3, 4>>, Comma)),
               Text(Join(<<5, 6>>, CommaSpace)),
               Text(<<"-">> \o Join(<<1, 2, 3, 4>>, CommaSpace)),
               Text(<<"x">> \o Join(<<1, 2, 3, 4>>, CommaSpace)),
               Text(<<>>) }

\* response.headers, as far as setRateLimits reads it: the three headers carry
\* the same value, or one of them differs from the tuple the other two carry
NoRateHeaders == [limit |-> NoHeader, remaining |-> NoHeader, reset |-> NoHeader]
UsualHeader == Text(Join(<<1, 2, 3, 4>>, CommaSpace))
ResponseHeaders ==
    { [limit |-> v, remaining |-> v, reset |-> v] : v \in HeaderValues }
        \cup { [limit |-> v, remaining |-> UsualHeader, reset |-> UsualHeader] : v \in HeaderValues }
        \cup { [limit |-> UsualHeader, remaining |-> v, reset |-> UsualHeader] : v \in HeaderValues }
        \cup { [limit |-> UsualHeader, remaining |-> UsualHeader, reset |-> v] : v \in HeaderValues }

----------------------------------------------------------------------------
(* Api.prototype.isExpired and the test of method() on the stored token.   *)

isExpiredFromMargin(t, expireTime) ==
    IF expireTime.isNaN THEN TRUE ELSE t >= expireTime.val - THRESHOLD

isExpired(t, expireTime) ==
    IF expireTime.isNaN THEN FALSE ELSE t > expireTime.val - THRESHOLD

NeedsAuthorizeNoExpiry(hdr, t, expireTime) == ~IsTruthy(hdr)

NeedsAuthorize(hdr, t, expireTime) == ~IsTruthy(hdr) \/ isExpired(t, expireTime)

(* Api.prototype.authorize: the callback of the token request.             *)

TokenGrantedLax(data) == IsTruthy(data.access_token)

TokenGranted(data) == IsTruthy(data.token_type) /\ IsTruthy(data.access_token)

AuthorizationHeaderBare(data) == data.access_token

AuthorizationHeader(data) == data.token_type \o " " \o data.access_token

ExpireTime(t, expires_in) ==
    IF expires_in.isNaN THEN NaN ELSE Num(t + expires_in.val * 1000)

----------------------------------------------------------------------------
(* Api.prototype.buildRequestData and canReadSubRequestData.               *)

canReadSubRequestData(entity, propertyName) ==
    \/ entity.class = "PayIn" /\ propertyName \in {"PaymentDetails", "ExecutionDetails"}
    \/ entity.class = "PayOut" /\ propertyName = "MeanOfPaymentDetails"
    \/ entity.class = "BankAccount" /\ propertyName = "Details"

\* _.keys(entity)
keysOf(entity) == { k \in EntityKeys : entity.fields[k].kind # "absent" }

\* _.extendOwn(requestData, json): every own property of json is copied
extendOwnKeepsOwn(requestData, json) ==
    [k \in DOMAIN requestData \cup { j \in JsonKeys : json[j] # Undefined } |->
        IF k \in DOMAIN requestData THEN requestData[k] ELSE Scalar(json[k])]

extendOwn(requestData, json) ==
    [k \in DOMAIN requestData \cup { j \in JsonKeys : json[j] # Undefined } |->
        IF k \in JsonKeys /\ json[k] # Undefined THEN Scalar(json[k]) ELSE requestData[k]]

\* _.each(_.keys(entity), ...) over the keys still to visit
RECURSIVE eachKey(_, _, _)
eachKey(requestData, entity, ks) ==
    IF ks = <<>> THEN requestData
    ELSE eachKey(IF Head(ks) \in keysOf(entity) /\ canReadSubRequestData(entity, Head(ks))
                 THEN extendOwn(requestData, entity.fields[Head(ks)].json)
                 ELSE requestData,
                 entity, Tail(ks))

buildRequestData(entity) ==
    LET blackList == entity.readOnly
        requestDataKeys == keysOf(entity) \ blackList
        requestData == [k \in requestDataKeys |-> entity.fields[k]]
    IN eachKey(requestData, entity, KeyOrder)

----------------------------------------------------------------------------
(* setRateLimits.                                                          *)

\* String.prototype.split(', ')
RECURSIVE splitFrom(_, _)
splitFrom(chars, token) ==
    IF chars = <<>> THEN <<token>>
    ELSE IF Len(chars) >= 2 /\ chars[1] = "," /\ chars[2] = " "
    THEN <<token>> \o splitFrom(SubSeq(chars, 3, Len(chars)), <<>>)
    ELSE splitFrom(Tail(chars), Append(token, chars[1]))

split(chars) == splitFrom(chars, <<>>)

\* Number(string): white space around the numeral is dropped, the empty string
\* is 0, a signed decimal numeral is its value, anything else is NaN
RECURSIVE trimLeft(_)
trimLeft(chars) ==
    IF chars # <<>> /\ chars[1] = " " THEN trimLeft(Tail(chars)) ELSE chars

RECURSIVE trimRight(_)
trimRight(chars) ==
    IF chars # <<>> /\ chars[Len(chars)] = " "
    THEN trimRight(SubSeq(chars, 1, Len(chars) - 1)) ELSE chars

RECURSIVE numeralValue(_, _)
numeralValue(chars, acc) ==
    IF chars = <<>> THEN acc
    ELSE numeralValue(Tail(chars), acc * 10 + DigitValue(chars[1]))

isNumeral(chars) == chars # <<>> /\ \A i \in 1 .. Len(chars) : chars[i] \in Digits

Number(chars) ==
    LET s == trimRight(trimLeft(chars)) IN
    IF s = <<>> THEN Num(0)
    ELSE IF s[1] \in {"-", "+"}
    THEN IF isNumeral(Tail(s))
         THEN Num((IF s[1] = "-" THEN -1 ELSE 1) * numeralValue(Tail(s), 0))
         ELSE NaN
    ELSE IF isNumeral(s) THEN Num(numeralValue(s, 0)) ELSE NaN

\* the value of a property that was assigned undefined
NoValue == [undefined |-> TRUE]

\* header.split(', ').map(Number)
numbersOf(chars) ==
    LET tokens == split(chars) IN [i \in 1 .. Len(tokens) |-> Number(tokens[i])]

\* the same for the header values of the model, computed once
NumbersOfHeaderValues ==
    [header \in { h \in HeaderValues : h.kind = "string" } |-> numbersOf(header.chars)]

numbersOfHeader(header) ==
    IF header \in DOMAIN NumbersOfHeaderValues THEN NumbersOfHeaderValues[header]
    ELSE numbersOf(header.chars)

\* rateLimit[i]
elementAt(numbers, i) == IF i <= Len(numbers) THEN numbers[i] ELSE NoValue

\* self.rateLimits as the constructor leaves it, and as setRateLimits fills it
\* when it is empty
NoRateLimits == <<>>
Window(minutes) ==
    [minutesInterval |-> minutes, callsMade |-> Num(0), callsRemaining |-> Num(0),
     resetTimeMillis |-> Num(0)]
InitialRateLimits == <<Window(15), Window(30), Window(60), Window(24 * 60)>>

\* the assignments of one if-block: the field of the four windows is set from
\* the elements of the header
applyHeaderAdding(limits, field, header) ==
    IF header.kind = "undefined" THEN limits
    ELSE LET numbers == numbersOfHeader(header) IN
         [i \in 1 .. 4 |->
            [limits[i] EXCEPT ![field] =
                LET v == elementAt(numbers, i) IN
                IF "isNaN" \in DOMAIN v /\ ~v.isNaN /\ "isNaN" \in DOMAIN @ /\ ~(@).isNaN
                THEN Num(@.val + v.val) ELSE v]]

applyHeader(limits, field, header) ==
    IF header.kind = "undefined" THEN limits
    ELSE LET rateLimit == numbersOfHeader(header) IN
         [i \in 1 .. 4 |-> [limits[i] EXCEPT ![field] = elementAt(rateLimit, i)]]

\* header.split is not a function: a TypeError is thrown
throws(header) == header.kind = "nonString"

\* catch (exception) { console.log(...) }: the exception goes no further
catchExceptionRethrows(thrown) == thrown

catchException(thrown) == FALSE

\* the try block: the three headers in turn, up to the first that throws
tryHeaders(limits, headers) ==
    IF throws(headers.limit) THEN [rateLimits |-> limits, thrown |-> TRUE]
    ELSE LET l1 == applyHeader(limits, "callsMade", headers.limit) IN
    IF throws(headers.remaining) THEN [rateLimits |-> l1, thrown |-> TRUE]
    ELSE LET l2 == applyHeader(l1, "callsRemaining", headers.remaining) IN
    IF throws(headers.reset) THEN [rateLimits |-> l2, thrown |-> TRUE]
    ELSE [rateLimits |-> applyHeader(l2, "resetTimeMillis", headers.reset), thrown |-> FALSE]

\* setRateLimits(self, headers): the snapshot it leaves, and whether an
\* exception leaves it
setRateLimitsEnforcing(limits, headers) ==
    LET started == IF Len(limits) = 0 THEN InitialRateLimits ELSE limits
        tried == tryHeaders(started, headers)
    IN [rateLimits |-> tried.rateLimits,
        thrown |-> \E i \in 1 .. Len(limits) : limits[i].callsRemaining = Num(0)]

setRateLimits(limits, headers) ==
    LET started == IF Len(limits) = 0 THEN InitialRateLimits ELSE limits
        tried == tryHeaders(started, headers)
    IN [rateLimits |-> tried.rateLimits, thrown |-> catchException(tried.thrown)]

----------------------------------------------------------------------------
(* The headers and the body of a request.                                  *)

\* this.requestOptions.headers, as far as the dispatcher reads it
defaultHeaders(hdr) == [own |-> FALSE, ContentType |-> "application/json", Authorization |-> hdr]

\* _.extend(destination, source) on headers: every property of source is copied
extendHeaders(destination, source) ==
    [own |-> destination.own,
     ContentType |-> IF source.ContentType # Undefined THEN source.ContentType
                     ELSE destination.ContentType,
     Authorization |-> IF source.Authorization # Undefined THEN source.Authorization
                       ELSE destination.Authorization]

\* _.extend(requestOptions.headers, this.requestOptions.headers, options.headers)
\* where requestOptions.headers is options.headers: the defaults are copied onto
\* the caller's object, then the object onto itself
mergeHeadersCallerWins(headers, defaults) ==
    extendHeaders(extendHeaders(headers, defaults), headers)

mergeHeaders(headers, defaults) ==
    LET merged == extendHeaders(headers, defaults) IN extendHeaders(merged, merged)

\* requestOptions.headers of the request about to be sent
requestHeaders(headers, hdr) ==
    IF ~headers.own THEN defaultHeaders(hdr)
    ELSE IF headers.ContentType = Undefined THEN mergeHeaders(headers, defaultHeaders(hdr))
    ELSE headers

\* _.extend(requestOptions.path, this.requestOptions.path, options.path) where
\* requestOptions.path is options.path: the defaults are copied onto the
\* caller's object
mergePathDefaultsOnly(callerPath, defaults) ==
    [own |-> TRUE, Id |-> Undefined, clientId |-> defaults.clientId]

mergePath(callerPath, defaults) ==
    [own |-> TRUE, Id |-> callerPath.Id, clientId |-> defaults.clientId]

\* requestOptions.path of the request about to be sent
requestPath(callerPath, defaults) ==
    IF callerPath.own THEN mergePath(callerPath, defaults)
    ELSE [own |-> FALSE, clientId |-> defaults.clientId]

\* an object held in options.data: its kind, the properties it was given, and
\* the properties of a response copied onto it (Id, Message, the index keys of a
\* list, data); and options.data when there is no object
DataObject(kind, fields) ==
    [kind |-> kind, fields |-> fields, Id |-> Undefined, Message |-> Undefined,
     indexed |-> <<>>, data |-> <<>>]

NoData == [kind |-> "none"]

\* the object the caller holds, per kind of options.data
callerObject(kind) ==
    CASE kind = "plain" -> DataObject("plain", PlainFields)
      [] kind = "model" -> DataObject("model", [k \in keysOf(SampleEntity) |->
                                                   SampleEntity.fields[k]])
      [] kind = "toJSON" -> DataObject("toJSON", PlainFields)
      [] OTHER -> NoData

\* options.data after the conversion at the head of method(): a model instance
\* is replaced by buildRequestData of it, an object with toJSON by its
\* serialized form, a plain object stays the caller's object
serializesAgain(object) == object.kind \in {"model", "toJSON", "built"}

serializes(object) == object.kind \in {"model", "toJSON"}

convertData(object) ==
    CASE object.kind = "model" -> DataObject("built", buildRequestData(SampleEntity))
      [] object.kind = "toJSON" -> DataObject("built", JsonFields)
      [] OTHER -> object

\* the properties of data copied onto the object: the index keys of a list, the
\* fields of an entity
extendProperties(object, data) ==
    IF isArray(data)
    THEN [object EXCEPT !.indexed = data.val \o SubSeq(@, Len(data.val) + 1, Len(@))]
    ELSE [object EXCEPT !.Id = IF ObjectOf(data).Id # Undefined THEN ObjectOf(data).Id ELSE @,
                        !.Message = IF ObjectOf(data).Message # Undefined
                                    THEN ObjectOf(data).Message ELSE @]

\* _.extend(requestOptions.data, data, {data: data})
extendDataNoDataKey(object, data) == extendProperties(object, data)

extendData(object, data) ==
    [extendProperties(object, data) EXCEPT !.data = <<data>>]

----------------------------------------------------------------------------
(* The state of one call to method(): where it stands, what it was given,  *)
(* and the history of what it did.                                         *)

\* history counters: exact up to their cap, which they never pass
BumpTo(n, cap) == IF n < cap THEN n + 1 ELSE n
Bump(n) == BumpTo(n, MaxCount)

NoToken == [token_type |-> Undefined, access_token |-> Undefined, expires_in |-> NaN]

IdleCall ==
    [ pc |-> "idle",              \* idle, authorizing, requesting, resolved, rejected
      opts |-> [method |-> "get", dataClass |-> Undefined, resolveWithFullResponse |-> FALSE,
                callback |-> FALSE, headers |-> NoHeaders, data |-> "none",
                path |-> NoPath, url |-> ManualUrl],
      headers |-> NoHeaders,      \* the caller's headers object, as it is now
      path |-> NoPath,            \* the caller's path object, as it is now
      callerData |-> NoData,      \* the object the caller passed in options.data, as it is now
      data |-> NoData,            \* options.data, as it is now
      entry |-> "none",           \* the stored token as method() found it: noToken, expired, valid
      authFor |-> "none",         \* the authorize() in flight: before dispatch (pre) or after a 401 (retry)
      nAuthorize |-> 0,           \* authorize() invocations made for the call
      nRequest |-> 0,             \* resource requests sent for the call
      n401 |-> 0,                 \* resource responses with status 401 received by the call
      sentHeader |-> Undefined,   \* Authorization header carried by the last resource request
      sentHeaders |-> NoHeaders,  \* the headers of that request
      entryHeaders |-> NoHeaders, \* the caller's headers object as method() found it then
      storedHeader |-> Undefined, \* the stored Authorization header at that moment
      sentState |-> "none",       \* the stored token at the moment that request was sent
      sent |-> [own |-> FALSE],   \* the method name, path parameters and body of that request
      nSerialize |-> 0,           \* conversions of options.data into a request body
      grantHeader |-> Undefined,  \* the header stored by the last authorize() of the call
      outcome |-> "none",         \* what the network last did to the call (see the observer below)
      statusCode |-> 0,           \* status of the resource response that settled the call
      body |-> Arr(<<>>),         \* decoded body of that response
      lastHeaders |-> NoRateHeaders, \* rate-limit headers of the last resource response
      nCallback |-> 0,            \* invocations of the caller's callback
      callbackArgument |-> Str(""), \* its first argument
      callbackAt |-> "none",      \* where the call stood when it was invoked
      retried |-> FALSE,          \* the callback is wrapped by the retry of a 401
      nErrorHandler |-> 0,        \* invocations of config.errorHandler
      errorHandlerArgs |-> <<Undefined, Arr(<<>>)>>,
      result |-> Str("") ]        \* the value the promise of method() was settled with

Settled(rec) == rec.pc \in {"resolved", "rejected"}

(* The observer: what the network did, told from the response alone and    *)
(* not from the branch the dispatcher took on it.                          *)

\* a token response: granted when it carries both fields, refused otherwise
TokenOutcome(data) ==
    IF data.token_type \notin {Undefined, ""} /\ data.access_token \notin {Undefined, ""}
    THEN "granted" ELSE "refused"

\* a resource response: 401, another status outside 200..299 (error), or ok
StatusOutcome(statusCode) ==
    IF statusCode = 401 THEN "401"
    ELSE IF statusCode \in 200 .. 299 THEN "ok" ELSE "error"

\* the stored token as a call finds it, and as it is when a request is sent
EntryState(hdr, t, expireTime) ==
    IF hdr = Undefined THEN "noToken"
    ELSE IF ~expireTime.isNaN /\ t > expireTime.val - 60000 THEN "expired" ELSE "valid"

observe(rec, what) ==
    [rec EXCEPT !.outcome = what, !.n401 = IF what = "401" THEN Bump(@) ELSE @]

----------------------------------------------------------------------------
(* Api.prototype.method and Api.prototype._requestApi up to the moment the *)
(* network request is handed to the REST client.                           *)

(* The promise of method() is settled.                                     *)

resolve(rec, value) == [rec EXCEPT !.pc = "resolved", !.result = value]

rejectResolves(rec, value) == [rec EXCEPT !.pc = "resolved", !.result = value]

reject(rec, value) == [rec EXCEPT !.pc = "rejected", !.result = value]

IsManual(m) == m \in {"post", "get", "put"}

\* self.authorize() invoked for the call: the token request is sent
authorize(rec, why) ==
    [rec EXCEPT !.pc = "authorizing", !.authFor = why, !.nAuthorize = Bump(@)]

\* the executor of _requestApi's promise throws before a request is made: no
\* method name, or a manual request without a url
throwsError(opts) ==
    ~IsTruthy(opts.method) \/ (IsManual(opts.method) /\ ~IsTruthy(opts.url))

thrownError(opts) ==
    IF ~IsTruthy(opts.method)
    THEN Error("Method is required in order to perform a API server request")
    ELSE Error("Url must be specified when doing a manual request")

\* _requestApi: the resource request is sent with the headers of requestOptions;
\* where these are the caller's object, that object now holds them; an exception
\* thrown in the executor rejects the promise
_requestApi(rec, hdr, t, expireTime, defaults) ==
    LET sent == requestHeaders(rec.headers, hdr)
        sentPath == requestPath(rec.path, defaults)
    IN
    IF throwsError(rec.opts)
    THEN reject([rec EXCEPT !.headers = IF rec.headers.own THEN sent ELSE @,
                            !.path = IF rec.path.own THEN sentPath ELSE @],
                thrownError(rec.opts))
    ELSE
    [rec EXCEPT !.pc = "requesting", !.nRequest = BumpTo(@, MaxCount + 1),
                !.entryHeaders = rec.headers,
                !.headers = IF rec.headers.own THEN sent ELSE @,
                !.path = IF rec.path.own THEN sentPath ELSE @,
                !.sent = [own |-> TRUE, method |-> rec.opts.method, path |-> sentPath,
                          data |-> rec.data],
                !.sentHeaders = sent,
                !.sentHeader = sent.Authorization,
                !.storedHeader = hdr,
                !.sentState = EntryState(hdr, t, expireTime)]

\* method(): options.data is converted; authorize first when no token is held or
\* the token is expired, else the request is sent
method(rec, hdr, t, expireTime, defaults) ==
    LET converted == [rec EXCEPT !.data = convertData(@),
                                 !.nSerialize = IF serializes(rec.data) THEN Bump(@) ELSE @]
    IN
    IF NeedsAuthorize(hdr, t, expireTime)
    THEN authorize(converted, "pre")
    ELSE _requestApi(converted, hdr, t, expireTime, defaults)

----------------------------------------------------------------------------
(* The callback of the resource request in _requestApi.                    *)

IsAuthorizationErrorAny4xx5xx(statusCode) == statusCode >= 400

IsAuthorizationError(statusCode) == statusCode = 401

IsFailureStatus(statusCode) == statusCode < 200 \/ statusCode > 299

\* _.map(data, function(dataItem) { return new dataClass(dataItem) })
mapDataClassReversed(dataClass, items) ==
    [i \in 1 .. Len(items) |-> Model(dataClass, items[Len(items) + 1 - i])]

mapDataClass(dataClass, items) ==
    [i \in 1 .. Len(items) |-> Model(dataClass, items[i])]

\* resolveArgument as first computed from the response
firstArgument(opts, statusCode, data) ==
    IF opts.resolveWithFullResponse THEN Response(statusCode, data) ELSE data

\* resolveArgument on a 2xx response
successArgumentAlwaysMaps(opts, statusCode, data) ==
    IF ~IsManual(opts.method) /\ IsTruthy(opts.dataClass)
    THEN IF isArray(data)
         THEN Arr(mapDataClass(opts.dataClass, data.val))
         ELSE Model(opts.dataClass, ObjectOf(data))
    ELSE firstArgument(opts, statusCode, data)

successArgument(opts, statusCode, data) ==
    IF ~IsManual(opts.method) /\ IsTruthy(opts.dataClass) /\ ~opts.resolveWithFullResponse
    THEN IF isArray(data)
         THEN Arr(mapDataClass(opts.dataClass, data.val))
         ELSE Model(opts.dataClass, ObjectOf(data))
    ELSE firstArgument(opts, statusCode, data)

\* data.Message, the first argument of the error handler
MessageOf(data) == IF isArray(data) THEN Undefined ELSE ObjectOf(data).Message

\* what the caller's callback receives: the wrapper installed by the retry of a
\* 401 passes the response when resolveWithFullResponse is set, its first
\* argument otherwise; the wrapper installed before dispatch passes its arguments
callbackArgument(rec, resolveArgument, statusCode, data) ==
    IF rec.retried /\ rec.opts.resolveWithFullResponse
    THEN Response(statusCode, data) ELSE resolveArgument

\* if (_.isFunction(callback)) callback(resolveArgument, response)
callback(rec, resolveArgument, statusCode, data) ==
    IF rec.opts.callback
    THEN [rec EXCEPT !.nCallback = Bump(@),
                     !.callbackArgument = callbackArgument(rec, resolveArgument, statusCode, data),
                     !.callbackAt = rec.pc]
    ELSE rec

\* the 2xx branch of a call to a registered endpoint: the response is copied
\* onto requestOptions.data; a plain object in options.data is the caller's own
mergeResponseOntoCopy(rec, data) ==
    IF IsManual(rec.opts.method) \/ rec.data.kind = "none" THEN rec
    ELSE [rec EXCEPT !.data = extendData(@, data)]

mergeResponse(rec, data) ==
    IF IsManual(rec.opts.method) \/ rec.data.kind = "none" THEN rec
    ELSE [rec EXCEPT !.data = extendData(@, data),
                     !.callerData = IF rec.data.kind = "plain" THEN extendData(rec.data, data) ELSE @]

\* the 401 branch: authorize(), then method() again with a wrapped callback
onUnauthorizedCallsBack(rec) ==
    authorize(callback([rec EXCEPT !.retried = TRUE], rec.body, 401, rec.body), "retry")

onUnauthorized(rec) == authorize([rec EXCEPT !.retried = TRUE], "retry")

\* the non-2xx branch: the callback and the error handler run, then the promise
\* is rejected
onFailureStatus(rec, statusCode, data) ==
    LET resolveArgument == firstArgument(rec.opts, statusCode, data)
        called == callback(rec, resolveArgument, statusCode, data)
    IN reject([called EXCEPT !.nErrorHandler = Bump(@),
                             !.errorHandlerArgs = <<MessageOf(data), data>>],
              resolveArgument)

\* the 2xx branch after setRateLimits: the response is merged, the callback
\* runs, then the promise is resolved
onSuccessResolvesFirst(rec, statusCode, data) ==
    LET merged == mergeResponse(rec, data)
        resolveArgument == successArgument(rec.opts, statusCode, data)
    IN callback(resolve(merged, resolveArgument), resolveArgument, statusCode, data)

onSuccess(rec, statusCode, data) ==
    LET merged == mergeResponse(rec, data)
        resolveArgument == successArgument(rec.opts, statusCode, data)
    IN resolve(callback(merged, resolveArgument, statusCode, data), resolveArgument)

\* the promise of authorize() is rejected: .catch(reject) rejects the promise of
\* method() with the same value
authorizeFailedCallsBack(rec, value) == reject(callback(rec, value, 0, value), value)

authorizeFailed(rec, value) == reject(rec, value)

\* an exception leaves the callback of the request: the promise stays pending
uncaught(rec) == [rec EXCEPT !.pc = "thrown"]

onResponse(rec, statusCode, data, thrown) ==
    LET seen == observe(rec, StatusOutcome(statusCode))
        got == [seen EXCEPT !.statusCode = statusCode, !.body = data]
    IN
    IF IsAuthorizationError(statusCode)
    THEN onUnauthorized(seen)
    ELSE IF IsFailureStatus(statusCode)
    THEN onFailureStatus(got, statusCode, data)
    ELSE IF thrown THEN uncaught(got)
    ELSE onSuccess(got, statusCode, data)

----------------------------------------------------------------------------
(* Actions.                                                                *)

\* buildRequestData has not been applied yet
NotBuilt == [called |-> FALSE]

\* the second client before its construction
NotConstructed ==
    [constructed |-> FALSE, authorizationExpireTime |-> NaN, rateLimits |-> NoRateLimits]

Init ==
    /\ now = 0
    /\ Authorization = Undefined
    /\ authorizationExpireTime = NaN
    /\ lastGrant = [held |-> FALSE, data |-> NoToken, at |-> 0, resolved |-> Obj(NoToken)]
    /\ call = [c \in Calls |-> IdleCall]
    /\ rateLimits = NoRateLimits
    /\ built = NotBuilt
    /\ path = FirstConfig
    /\ other = NotConstructed

\* the clock advances
Tick ==
    /\ now < MaxTicks * TickStep
    /\ now' = now + TickStep
    /\ UNCHANGED <<Authorization, authorizationExpireTime, lastGrant, call, rateLimits, built, path, other>>

\* the application calls method(name, callback, options)
Invoke(c, o) ==
    /\ call[c].pc = "idle"
    /\ call' = [call EXCEPT ![c] =
                 method([@ EXCEPT !.opts = o,
                                  !.headers = o.headers,
                                  !.path = o.path,
                                  !.callerData = callerObject(o.data),
                                  !.data = callerObject(o.data),
                                  !.entry = EntryState(Authorization, now, authorizationExpireTime)],
                        Authorization, now, authorizationExpireTime, path)]
    /\ UNCHANGED <<now, Authorization, authorizationExpireTime, lastGrant, rateLimits, built, path, other>>

\* the token request of call c is answered with the decoded body data
AuthorizeResponse(c, data) ==
    /\ call[c].pc = "authorizing"
    /\ IF TokenGranted(data)
       THEN LET hdr == AuthorizationHeader(data)
                expireTime == ExpireTime(now, data.expires_in)
                rec == [observe(call[c], TokenOutcome(data)) EXCEPT !.grantHeader = hdr]
            IN /\ Authorization' = hdr
               /\ authorizationExpireTime' = expireTime
               /\ lastGrant' = [held |-> TRUE, data |-> data, at |-> now, resolved |-> Obj(data)]
               /\ call' = [call EXCEPT ![c] = method(rec, hdr, now, expireTime, path)]
       ELSE /\ call' = [call EXCEPT ![c] =
                         authorizeFailed(observe(@, TokenOutcome(data)), Obj(data))]
            /\ UNCHANGED <<Authorization, authorizationExpireTime, lastGrant>>
    /\ UNCHANGED <<now, rateLimits, built, path, other>>

\* the token request of call c ends with a transport error
AuthorizeError(c) ==
    /\ call[c].pc = "authorizing"
    /\ call' = [call EXCEPT ![c] =
                 authorizeFailed(observe(@, "authError"), Str("err.message"))]
    /\ UNCHANGED <<now, Authorization, authorizationExpireTime, lastGrant, rateLimits, built, path, other>>

\* the resource request of call c is answered with status statusCode, the
\* decoded body data and the response headers headers
RequestResponse(c, statusCode, data, headers) ==
    /\ call[c].pc = "requesting"
    /\ LET update == IF IsAuthorizationError(statusCode) \/ IsFailureStatus(statusCode)
                     THEN [rateLimits |-> rateLimits, thrown |-> FALSE]
                     ELSE setRateLimits(rateLimits, headers)
       IN /\ rateLimits' = update.rateLimits
          /\ call' = [call EXCEPT ![c] =
                       onResponse([@ EXCEPT !.lastHeaders = headers], statusCode, data,
                                  update.thrown)]
    /\ UNCHANGED <<now, Authorization, authorizationExpireTime, lastGrant, built, path, other>>

\* buildRequestData is applied to an entity; it reads and writes nothing but
\* the entity, so one application from the initial state shows what it does
Build(entity) ==
    /\ ~built.called
    /\ built' = [called |-> TRUE, entity |-> entity, requestData |-> buildRequestData(entity)]
    /\ UNCHANGED <<now, Authorization, authorizationExpireTime, lastGrant, call, rateLimits, path, other>>

\* the resource request of call c ends with a transport error
RequestError(c) ==
    /\ call[c].pc = "requesting"
    /\ call' = [call EXCEPT ![c] = reject(observe(@, "transport"), Str("err.message"))]
    /\ UNCHANGED <<now, Authorization, authorizationExpireTime, lastGrant, rateLimits, built, path, other>>

\* new Api(SecondConfig): the constructor extends the requestOptions of the
\* prototype, which every instance reads, with a new headers object and with
\* the path parameters of the new configuration
Construct ==
    /\ ~other.constructed
    /\ other' = [constructed |-> TRUE, authorizationExpireTime |-> NaN,
                 rateLimits |-> NoRateLimits]
    /\ Authorization' = Undefined
    /\ path' = SecondConfig
    /\ UNCHANGED <<now, authorizationExpireTime, lastGrant, call, rateLimits, built>>

\* the application calls method(name, callback, options) of the second client
OtherInvoke(c, o) ==
    /\ other.constructed
    /\ call[c].pc = "idle"
    /\ call' = [call EXCEPT ![c] =
                 method([@ EXCEPT !.opts = o,
                                  !.headers = o.headers,
                                  !.path = o.path,
                                  !.callerData = callerObject(o.data),
                                  !.data = callerObject(o.data),
                                  !.entry = EntryState(Authorization, now,
                                                       other.authorizationExpireTime)],
                        Authorization, now, other.authorizationExpireTime, path)]
    /\ UNCHANGED <<now, Authorization, authorizationExpireTime, lastGrant, rateLimits, built,
                   path, other>>

\* the token request of call c of the second client is answered
OtherAuthorizeResponse(c, data) ==
    /\ other.constructed
    /\ call[c].pc = "authorizing"
    /\ IF TokenGranted(data)
       THEN LET hdr == AuthorizationHeader(data)
                expireTime == ExpireTime(now, data.expires_in)
                rec == [observe(call[c], TokenOutcome(data)) EXCEPT !.grantHeader = hdr]
            IN /\ Authorization' = hdr
               /\ other' = [other EXCEPT !.authorizationExpireTime = expireTime]
               /\ lastGrant' = [held |-> TRUE, data |-> data, at |-> now, resolved |-> Obj(data)]
               /\ call' = [call EXCEPT ![c] = method(rec, hdr, now, expireTime, path)]
       ELSE /\ call' = [call EXCEPT ![c] =
                         authorizeFailed(observe(@, TokenOutcome(data)), Obj(data))]
            /\ UNCHANGED <<Authorization, other, lastGrant>>
    /\ UNCHANGED <<now, authorizationExpireTime, rateLimits, built, path>>

\* the resource request of call c of the second client is answered
OtherRequestResponse(c, statusCode, data, headers) ==
    /\ other.constructed
    /\ call[c].pc = "requesting"
    /\ LET update == IF IsAuthorizationError(statusCode) \/ IsFailureStatus(statusCode)
                     THEN [rateLimits |-> other.rateLimits, thrown |-> FALSE]
                     ELSE setRateLimits(other.rateLimits, headers)
       IN /\ other' = [other EXCEPT !.rateLimits = update.rateLimits]
          /\ call' = [call EXCEPT ![c] =
                       onResponse([@ EXCEPT !.lastHeaders = headers], statusCode, data,
                                  update.thrown)]
    /\ UNCHANGED <<now, Authorization, authorizationExpireTime, lastGrant, rateLimits, built,
                   path>>

\* the application has taken the settled call's result; its next call follows
Return(c) ==
    /\ Settled(call[c])
    /\ call' = [call EXCEPT ![c] = IdleCall]
    /\ UNCHANGED <<now, Authorization, authorizationExpireTime, lastGrant, rateLimits, built, path, other>>

----------------------------------------------------------------------------
(* Specifications.                                                         *)

\* a response that makes the call authorize again
GrantRenews(data) ==
    /\ TokenGranted(data)
    /\ NeedsAuthorize(AuthorizationHeader(data), now, ExpireTime(now, data.expires_in))

\* the history counters of the call are still exact after one more authorize()
Budget(c) == call[c].nAuthorize < MaxCount

\* the inputs of the dispatch protocol: the payload's shape, the model class and
\* the shape of the result play no part in it
ProtocolOptions ==
    { o \in Options : o.method = "PayIns_GetRefunds" /\ o.dataClass = Undefined
                      /\ ~o.resolveWithFullResponse /\ ~o.callback
                      /\ o.headers = NoHeaders /\ o.data = "none" /\ o.path = NoPath }
ProtocolPayloads == { Obj(x) : x \in Items }
ProtocolStatuses == {200, 401, 500}

\* the token responses of the protocol: a response without access_token is
\* refused like one without token_type
ProtocolTokens == { data \in TokenResponses : data.access_token # Undefined }

\* the server answers a 2xx with the entity and any other status with an error
\* document
Answers(statusCode, data) ==
    (StatusOutcome(statusCode) = "ok") <=> (ObjectOf(data).Message = Undefined)

\* The dispatch protocol under two concurrent calls.  The server answers 401,
\* and the token endpoint grants a token inside the expiry margin, only while
\* the call's count of authorize() invocations is exact.
Next ==
    \/ Tick
    \/ \E c \in Calls, o \in ProtocolOptions : Invoke(c, o)
    \/ \E c \in Calls, data \in ProtocolTokens :
          (GrantRenews(data) => Budget(c)) /\ AuthorizeResponse(c, data)
    \/ \E c \in Calls : AuthorizeError(c)
    \/ \E c \in Calls, statusCode \in ProtocolStatuses, data \in ProtocolPayloads :
          /\ StatusOutcome(statusCode) = "401" => Budget(c)
          /\ Answers(statusCode, data)
          /\ RequestResponse(c, statusCode, data, NoRateHeaders)
    \/ \E c \in Calls : RequestError(c)
    \/ \E c \in Calls : Return(c)

Spec == Init /\ [][Next]_vars

\* The same protocol with no limit on what the server answers: the history
\* counters stop at their caps.  Every request sent is eventually answered or
\* fails in transport (the REST client's connection and response timeouts).
LiveCalls == {1}

LiveNext ==
    \/ Tick
    \/ \E c \in LiveCalls, o \in ProtocolOptions : Invoke(c, o)
    \/ \E c \in LiveCalls, data \in TokenResponses : AuthorizeResponse(c, data)
    \/ \E c \in LiveCalls : AuthorizeError(c)
    \/ \E c \in LiveCalls, statusCode \in ProtocolStatuses, data \in ProtocolPayloads :
          RequestResponse(c, statusCode, data, NoRateHeaders)
    \/ \E c \in LiveCalls : RequestError(c)
    \/ \E c \in LiveCalls : Return(c)

Answered(c) ==
    \/ \E data \in TokenResponses : AuthorizeResponse(c, data)
    \/ AuthorizeError(c)
    \/ \E statusCode \in ProtocolStatuses, data \in ProtocolPayloads :
          RequestResponse(c, statusCode, data, NoRateHeaders)
    \/ RequestError(c)

LiveSpec == Init /\ [][LiveNext]_vars /\ \A c \in LiveCalls : WF_vars(Answered(c))

\* Two calls made once each whose token requests are always granted, with a
\* lifetime beyond the expiry margin or inside it, and whose every request is
\* eventually answered or fails in transport.
OverlapTokens ==
    { data \in TokenResponses : TokenOutcome(data) = "granted" /\ ~data.expires_in.isNaN }

OverlapNext ==
    \/ \E c \in Calls, o \in ProtocolOptions : Invoke(c, o)
    \/ \E c \in Calls, data \in OverlapTokens : AuthorizeResponse(c, data)
    \/ \E c \in Calls, statusCode \in ProtocolStatuses, data \in ProtocolPayloads :
          Answers(statusCode, data) /\ RequestResponse(c, statusCode, data, NoRateHeaders)
    \/ \E c \in Calls : RequestError(c)

OverlapAnswered(c) ==
    \/ \E data \in OverlapTokens : AuthorizeResponse(c, data)
    \/ \E statusCode \in ProtocolStatuses, data \in ProtocolPayloads :
          Answers(statusCode, data) /\ RequestResponse(c, statusCode, data, NoRateHeaders)
    \/ RequestError(c)

OverlapSpec == Init /\ [][OverlapNext]_vars /\ \A c \in Calls : WF_vars(OverlapAnswered(c))

\* Two clients in one process, the second constructed at any moment, with one
\* call at a time each.  The token endpoint grants each client the token of
\* the credentials its authorize() presents.
TokenFor(config) ==
    CHOOSE data \in TokenResponses :
        data.access_token = IF config = FirstConfig THEN "tokA" ELSE "tokC"

InstanceNext ==
    \/ Tick
    \/ Construct
    \/ \E o \in ProtocolOptions : Invoke(1, o)
    \/ \E o \in ProtocolOptions : OtherInvoke(2, o)
    \/ AuthorizeResponse(1, TokenFor(FirstConfig))
    \/ OtherAuthorizeResponse(2, TokenFor(SecondConfig))
    \/ \E statusCode \in ProtocolStatuses, data \in ProtocolPayloads :
          /\ StatusOutcome(statusCode) = "401" => Budget(1)
          /\ Answers(statusCode, data)
          /\ RequestResponse(1, statusCode, data, NoRateHeaders)
    \/ \E statusCode \in ProtocolStatuses, data \in ProtocolPayloads :
          /\ StatusOutcome(statusCode) = "401" => Budget(2)
          /\ Answers(statusCode, data)
          /\ OtherRequestResponse(2, statusCode, data, NoRateHeaders)
    \/ \E c \in Calls : Return(c)

InstanceSpec == Init /\ [][InstanceNext]_vars

\* Two calls in flight together, each a get of an entity by its id or a
\* create, answered in any order.  The server answers a get with the entity
\* that the path of the request names and a create with the entity it made.
PairIds == {"a", "b"}
PairOptions ==
    { [method |-> "PayIns_GetRefunds", dataClass |-> dataClass,
       resolveWithFullResponse |-> FALSE, callback |-> TRUE, headers |-> NoHeaders,
       data |-> "none", path |-> PathTo(id), url |-> Undefined] : dataClass \in {Undefined, "Refund"}, id \in PairIds }
    \cup
    { [method |-> "PayIns_GetRefunds", dataClass |-> "Refund",
       resolveWithFullResponse |-> FALSE, callback |-> TRUE, headers |-> NoHeaders,
       data |-> "plain", path |-> NoPath, url |-> Undefined] }

PairPayloads ==
    ProtocolPayloads
        \cup { Obj([Id |-> id, Message |-> Undefined]) : id \in PairIds \cup {Undefined} }

Serves(rec, statusCode, data) ==
    /\ rec.sent.own
    /\ IF StatusOutcome(statusCode) = "ok"
       THEN data = Obj([Id |-> IF rec.sent.path.own THEN rec.sent.path.Id ELSE "a",
                        Message |-> Undefined])
       ELSE data = Obj([Id |-> Undefined, Message |-> "refused"])

PairNext ==
    \/ \E c \in Calls, o \in PairOptions : Invoke(c, o)
    \/ \E c \in Calls : AuthorizeResponse(c, TokenFor(FirstConfig))
    \/ \E c \in Calls, statusCode \in {200, 500}, data \in PairPayloads :
          Serves(call[c], statusCode, data)
              /\ RequestResponse(c, statusCode, data, NoRateHeaders)
    \/ \E c \in Calls : Return(c)

PairSpec == Init /\ [][PairNext]_vars

\* The result of one call for every option, status and payload, with a token
\* endpoint that grants a token beyond the expiry margin or refuses.
DataCalls == {1}
DataTokens == { d \in TokenResponses : d.access_token = "tokA" }
DataRefusals == { d \in TokenResponses : d.token_type = Undefined }

DataNext ==
    \/ \E c \in DataCalls, o \in Options : Invoke(c, o)
    \/ \E c \in DataCalls, data \in DataTokens \cup DataRefusals : AuthorizeResponse(c, data)
    \/ \E c \in DataCalls : AuthorizeError(c)
    \/ \E c \in DataCalls, statusCode \in Statuses, data \in Payloads :
          (StatusOutcome(statusCode) = "401" => Budget(c)) /\ RequestResponse(c, statusCode, data, NoRateHeaders)
    \/ \E c \in DataCalls : RequestError(c)
    \/ \E c \in DataCalls : Return(c)

DataSpec == Init /\ [][DataNext]_vars

\* The rate-limit snapshot under one call at a time, for every header set a
\* response may carry.
RateCalls == {1}

RateNext ==
    \/ \E c \in RateCalls, o \in ProtocolOptions : Invoke(c, o)
    \/ \E c \in RateCalls, data \in DataTokens : AuthorizeResponse(c, data)
    \/ \E c \in RateCalls, statusCode \in ProtocolStatuses, data \in ProtocolPayloads,
          headers \in ResponseHeaders :
          (StatusOutcome(statusCode) = "401" => Budget(c))
              /\ RequestResponse(c, statusCode, data, headers)
    \/ \E c \in RateCalls : Return(c)

RateSpec == Init /\ [][RateNext]_vars

\* buildRequestData applied to every entity.
BuildNext == \E entity \in Entities : Build(entity)

BuildSpec == Init /\ [][BuildNext]_vars

----------------------------------------------------------------------------
(* Claims.                                                                 *)

NeededAuthorize(rec) == rec.entry \in {"noToken", "expired"}

\* C1: a call issued while no token is held, or while the stored token is
\* expired, has authorize() invoked exactly once before its resource request is
\* sent, and that request carries the header that authorize() stored, whatever
\* lifetime the token endpoint returns.
C1_AuthorizeOnceBeforeRequest ==
    \A c \in Calls :
        (NeededAuthorize(call[c]) /\ call[c].nRequest >= 1 /\ call[c].n401 = 0)
            => (call[c].nAuthorize = 1 /\ call[c].sentHeader = call[c].grantHeader)

\* C2: a call that receives 401 is re-authorized and retried exactly once; a
\* second 401 fails the call and no further authorize() or retry is made.
C2_SingleRetryOn401 ==
    \A c \in Calls :
        /\ call[c].n401 >= 1 => call[c].nRequest <= 2
        /\ call[c].n401 >= 2 => call[c].pc = "rejected"

\* C3: whenever a resource request is sent, a token is held and it is not
\* expired at that moment.
C3_RequestSentWithValidToken ==
    \A c \in Calls : call[c].nRequest >= 1 => call[c].sentState = "valid"

\* a call that found the stored token expired has re-authorized and sent its request
C3_Witness ==
    \E c \in Calls : call[c].entry = "expired" /\ call[c].pc = "requesting"

\* C4: every call to method() eventually settles, provided every request it
\* sends is eventually answered or fails in transport.
C4_EveryCallSettles ==
    \A c \in LiveCalls :
        (call[c].pc \in {"authorizing", "requesting"}) ~> Settled(call[c])

\* C5: on a status outside 200..299 other than 401 the error handler is invoked
\* exactly once with the decoded body, and the call is then rejected with a
\* value that carries both the decoded body and the HTTP status.
C5_RejectionCarriesBodyAndStatus ==
    \A c \in Calls :
        call[c].outcome = "error"
            => /\ call[c].pc = "rejected"
               /\ call[c].nErrorHandler = 1
               /\ call[c].errorHandlerArgs[2] = call[c].body
               /\ call[c].result.type = "response"
               /\ call[c].result.body = call[c].body
               /\ call[c].result.statusCode = call[c].statusCode

\* C6: a call whose resource request ends with a transport error or with a
\* status outside 200..299 other than 401 is rejected there: every resource
\* request it sent beyond the first was the retry of a 401, and nothing more
\* is sent.
C6_NoRetryForOtherFailures ==
    \A c \in Calls :
        call[c].outcome \in {"error", "transport"}
            => (call[c].pc = "rejected" /\ call[c].nRequest = call[c].n401 + 1)

\* a call retried after a 401 whose retry was answered with an error status
C6_Witness ==
    \E c \in Calls :
        call[c].outcome = "error" /\ call[c].n401 = 1 /\ call[c].nRequest = 2

\* C7: a call whose last network outcome is a transport failure, a failed
\* authorization or a non-2xx, non-401 response has its promise rejected: it is
\* neither resolved nor left pending.
C7_ErrorsAlwaysReject ==
    \A c \in Calls :
        call[c].outcome \in {"transport", "authError", "refused", "error"}
            => (call[c].pc = "rejected" /\ call[c].result.type \in {"string", "object", "response"})

\* the re-authorization after a 401 was refused and the call is rejected
C7_Witness ==
    \E c \in Calls :
        call[c].outcome = "refused" /\ call[c].n401 = 1 /\ call[c].pc = "rejected"

\* C8: after a token response carrying token_type and access_token, authorize()
\* has resolved with the raw payload, the stored header is
\* token_type + " " + access_token and the stored expiry is the time of the
\* response + expires_in * 1000, both of the same (the last granting) response.
C8_TokenStoredFromOneResponse ==
    lastGrant.held
        => /\ Authorization = lastGrant.data.token_type \o " " \o lastGrant.data.access_token
           /\ authorizationExpireTime =
                 IF lastGrant.data.expires_in.isNaN
                 THEN NaN
                 ELSE Num(lastGrant.at + lastGrant.data.expires_in.val * 1000)
           /\ lastGrant.resolved = Obj(lastGrant.data)

\* a token was replaced by a later grant while another authorize() is in flight
C8_Witness ==
    /\ lastGrant.held
    /\ lastGrant.at > 0
    /\ lastGrant.data.expires_in = Num(120)
    /\ \E c \in Calls : call[c].pc = "authorizing"

C10_EveryModelCallMapsPayload ==
    \A c \in Calls :
        (call[c].outcome = "ok" /\ ~IsManual(call[c].opts.method)
           /\ call[c].opts.dataClass # Undefined)
            => call[c].result =
                 IF call[c].body.type = "array"
                 THEN Arr([i \in 1 .. Len(call[c].body.val) |->
                             Model(call[c].opts.dataClass, call[c].body.val[i])])
                 ELSE Model(call[c].opts.dataClass, call[c].body.val[1])

\* C10 amended: the same for the calls that do not set resolveWithFullResponse.
C10_ModelCallMapsPayload ==
    \A c \in Calls :
        (call[c].outcome = "ok" /\ ~IsManual(call[c].opts.method)
           /\ call[c].opts.dataClass # Undefined /\ ~call[c].opts.resolveWithFullResponse)
            => call[c].result =
                 IF call[c].body.type = "array"
                 THEN Arr([i \in 1 .. Len(call[c].body.val) |->
                             Model(call[c].opts.dataClass, call[c].body.val[i])])
                 ELSE Model(call[c].opts.dataClass, call[c].body.val[1])

\* a list of two different elements was mapped onto the model class
C10_Witness ==
    \E c \in Calls :
        /\ call[c].pc = "resolved"
        /\ call[c].opts.dataClass = "Refund"
        /\ ~call[c].opts.resolveWithFullResponse
        /\ ~IsManual(call[c].opts.method)
        /\ call[c].body.type = "array"
        /\ Len(call[c].body.val) = 2
        /\ call[c].body.val[1] # call[c].body.val[2]
        /\ call[c].result.type = "array"

\* C11: buildRequestData applied to any model leaves out every field named in
\* the model's read-only set and puts every field of the serialized form of the
\* model's designated nested object at the top level of its output, also when
\* that serialized form has a field named in the read-only set.
C11_BuildOmitsReadOnlyAndInlines ==
    built.called =>
        /\ \A k \in built.entity.readOnly : ~Has(built.requestData, k)
        /\ \A k \in NestedKeys :
              (built.entity.fields[k].kind = "object"
                  /\ (\/ built.entity.class = "PayIn"
                            /\ k \in {"PaymentDetails", "ExecutionDetails"}
                      \/ built.entity.class = "PayOut" /\ k = "MeanOfPaymentDetails"
                      \/ built.entity.class = "BankAccount" /\ k = "Details"))
              => \A j \in JsonKeys :
                    built.entity.fields[k].json[j] # Undefined
                        => (Has(built.requestData, j) /\ built.requestData[j].kind = "scalar")

\* the object holds every field of the response at its top level and the raw
\* response under its data key
HoldsResponse(object, data) ==
    /\ object.kind # "none"
    /\ object.data = <<data>>
    /\ IF data.type = "array"
       THEN /\ Len(object.indexed) >= Len(data.val)
            /\ \A i \in 1 .. Len(data.val) : object.indexed[i] = data.val[i]
       ELSE /\ data.val[1].Id # Undefined => object.Id = data.val[1].Id
            /\ data.val[1].Message # Undefined => object.Message = data.val[1].Message

RegisteredEndpoint(rec) == rec.opts.method \notin {"post", "get", "put"}

Succeeded(rec) == rec.pc = "resolved" /\ rec.outcome = "ok"

\* C12: after a successful call to a registered endpoint whose payload is a
\* plain object, the caller's payload object holds every field of the response
\* at its top level and the raw response under data, with or without a model
\* class.
C12_PlainPayloadHoldsResponse ==
    \A c \in Calls :
        (Succeeded(call[c]) /\ call[c].opts.data = "plain" /\ RegisteredEndpoint(call[c]))
            => HoldsResponse(call[c].callerData, call[c].body)

C12_Witness ==
    \E c \in Calls :
        /\ Succeeded(call[c]) /\ call[c].opts.data = "plain" /\ RegisteredEndpoint(call[c])
        /\ call[c].opts.dataClass = "Refund"
        /\ call[c].callerData.Id = "a"
        /\ call[c].callerData.fields["Tag"] = Scalar("Tag")

\* C13 as stated: on a 2xx response every call with no model class returns the
\* raw payload and has that payload merged onto the object the caller passed,
\* at top level and under data, calls without a request body included.
C13_RawPayloadMergedOnEveryCall ==
    \A c \in Calls :
        (Succeeded(call[c]) /\ call[c].opts.dataClass = Undefined)
            => /\ call[c].result = call[c].body
               /\ HoldsResponse(call[c].data, call[c].body)

\* C13, amended: on a 2xx response a call with no model class and without
\* resolveWithFullResponse returns the raw payload; a call to a registered
\* endpoint that carries a request body has the payload merged onto that body
\* object (the caller's own object when it is a plain object), at top level and
\* under data; a call without a body, or with a manual verb, has it merged
\* nowhere.
C13_RawPayloadMergedOntoBody ==
    \A c \in Calls :
        (Succeeded(call[c]) /\ call[c].opts.dataClass = Undefined)
            => /\ ~call[c].opts.resolveWithFullResponse => call[c].result = call[c].body
               /\ (RegisteredEndpoint(call[c]) /\ call[c].opts.data # "none")
                     => /\ HoldsResponse(call[c].data, call[c].body)
                        /\ call[c].opts.data = "plain" => call[c].callerData = call[c].data
               /\ (~RegisteredEndpoint(call[c]) \/ call[c].opts.data = "none")
                     => /\ ~HoldsResponse(call[c].data, call[c].body)
                        /\ ~HoldsResponse(call[c].callerData, call[c].body)

C13_Witness ==
    \E c \in Calls :
        /\ Succeeded(call[c]) /\ call[c].opts.dataClass = Undefined
        /\ ~call[c].opts.resolveWithFullResponse
        /\ call[c].opts.data = "model" /\ RegisteredEndpoint(call[c])
        /\ call[c].body.type = "object"
        /\ call[c].data.Id = "a"
        /\ call[c].data.data = <<call[c].body>>
        /\ call[c].result = call[c].body

\* C14: a call that succeeds and was given a callback has had the callback
\* invoked with its result while its promise was still pending, on the direct
\* path, on the path deferred for authorization and on the retry after a 401.
C14_CallbackBeforeResolve ==
    \A c \in Calls :
        (call[c].pc = "resolved" /\ call[c].opts.callback)
            => /\ call[c].nCallback >= 1
               /\ call[c].callbackArgument = call[c].result
               /\ call[c].callbackAt \notin {"resolved", "rejected"}

C14_Witness ==
    \E c \in Calls :
        /\ call[c].pc = "resolved" /\ call[c].opts.callback
        /\ call[c].entry = "noToken" /\ call[c].n401 >= 1
        /\ call[c].opts.resolveWithFullResponse
        /\ call[c].callbackArgument = call[c].result
        /\ call[c].callbackAt = "requesting"

\* C15: from every snapshot, applying the update twice with the same response
\* headers leaves the snapshot that applying it once leaves.
C15_SetRateLimitsIdempotent ==
    \A headers \in ResponseHeaders :
        LET once == setRateLimits(rateLimits, headers).rateLimits
        IN setRateLimits(once, headers).rateLimits = once

C15_Witness ==
    /\ Len(rateLimits) = 4
    /\ rateLimits[1].callsMade = [isNaN |-> FALSE, val |-> 12]
    /\ rateLimits[4].resetTimeMillis = [isNaN |-> FALSE, val |-> 4]
    /\ \E headers \in ResponseHeaders : setRateLimits(rateLimits, headers).rateLimits # rateLimits

\* a stored value that is a number below zero
Negative(v) == "isNaN" \in DOMAIN v /\ ~v.isNaN /\ v.val < 0

RateFields == {"callsMade", "callsRemaining", "resetTimeMillis"}

HeaderOf(headers, field) ==
    CASE field = "callsMade" -> headers.limit
      [] field = "callsRemaining" -> headers.remaining
      [] OTHER -> headers.reset

\* C16: no value of any window of the snapshot is ever negative, whatever the
\* responses carried, and a value of a window changes only to the element of the
\* response's tuple that is aligned to the window.
C16_SnapshotNeverNegative ==
    [][ /\ \A i \in 1 .. Len(rateLimits') : \A f \in RateFields : ~Negative(rateLimits'[i][f])
        /\ \A i \in 1 .. Len(rateLimits) : \A f \in RateFields :
              rateLimits'[i][f] # rateLimits[i][f]
                  => \E c \in Calls :
                        /\ call[c].pc = "requesting" /\ call'[c].pc # "requesting"
                        /\ HeaderOf(call'[c].lastHeaders, f).kind = "string"
                        /\ rateLimits'[i][f] =
                              elementAt(numbersOf(HeaderOf(call'[c].lastHeaders, f).chars), i)
      ]_vars

\* C17: a 2xx response resolves the call with the result its status and body
\* give, whatever its rate-limit headers are: malformed, partial or not strings.
C17_ParseFailureNeverFailsCall ==
    \A c \in Calls :
        call[c].outcome = "ok"
            => /\ call[c].pc = "resolved"
               /\ (call[c].opts.dataClass = Undefined /\ ~call[c].opts.resolveWithFullResponse)
                     => call[c].result = call[c].body

C17_Witness ==
    \E c \in Calls :
        /\ call[c].outcome = "ok" /\ call[c].pc = "resolved"
        /\ call[c].lastHeaders.limit.kind = "string"
        /\ call[c].lastHeaders.remaining.kind = "nonString"
        /\ call[c].result = call[c].body
        /\ rateLimits[1].callsMade = [isNaN |-> FALSE, val |-> 1]

\* the header a server writes for a tuple
Written(t) == Text(Join(t, CommaSpace))

\* C18: after a resource response of any status (2xx, 401, another error) that
\* carries the three rate-limit headers, the snapshot holds the values of those
\* headers.
C18_HeadersReadOnEveryResponse ==
    \A c \in Calls :
        call[c].outcome \in {"ok", "401", "error"}
            => \A made \in RateTuples, remaining \in RateTuples, reset \in RateTuples :
                  call[c].lastHeaders =
                      [limit |-> Written(made), remaining |-> Written(remaining),
                       reset |-> Written(reset)]
                  => /\ Len(rateLimits) = 4
                     /\ \A i \in 1 .. 4 :
                           /\ rateLimits[i].callsMade = [isNaN |-> FALSE, val |-> made[i]]
                           /\ rateLimits[i].callsRemaining = [isNaN |-> FALSE, val |-> remaining[i]]
                           /\ rateLimits[i].resetTimeMillis = [isNaN |-> FALSE, val |-> reset[i]]

\* C19: a request of a call whose headers object has Content-Type carries that
\* object's headers as they are; a request of a call whose headers object has no
\* Content-Type carries the default Content-Type and the stored Authorization
\* header, whatever Authorization value the caller put in the object.
C19_DefaultHeadersWin ==
    \A c \in Calls :
        (call[c].nRequest >= 1 /\ call[c].entryHeaders.own)
            => IF call[c].entryHeaders.ContentType # Undefined
               THEN call[c].sentHeaders = call[c].entryHeaders
               ELSE /\ call[c].sentHeaders.ContentType = "application/json"
                    /\ call[c].sentHeaders.Authorization = call[c].storedHeader
                    /\ call[c].storedHeader \notin {Undefined, "Basic caller"}

C19_Witness ==
    \E c \in Calls :
        /\ call[c].nRequest >= 1 /\ call[c].entryHeaders.own
        /\ call[c].entryHeaders.ContentType = Undefined
        /\ call[c].entryHeaders.Authorization = "Basic caller"
        /\ call[c].sentHeaders.Authorization = "bearer tokA"

\* C20: at no time are two authorize() requests of the client in flight.
C20_OneAuthorizeInFlight ==
    Cardinality({ c \in Calls : call[c].pc = "authorizing" }) <= 1

\* the identifiers the remote service assigns
AssignedIds == { x.Id : x \in Items } \ {Undefined, ""}

ExpiryKnown == ~authorizationExpireTime.isNaN

Exhausted == \E i \in 1 .. Len(rateLimits) : rateLimits[i].callsRemaining = Num(0)

\* C23: whatever the snapshot holds, a call that finds a valid token has its
\* request sent at once with the stored token and the default headers, and a
\* 2xx response resolves it with the result its status and body give.
C23_SnapshotIsAdvisory ==
    \A c \in Calls :
        /\ (call[c].pc # "idle" /\ call[c].entry = "valid")
              => /\ call[c].nRequest >= 1
                 /\ call[c].nAuthorize = call[c].n401
                 /\ call[c].sentHeader = call[c].storedHeader
                 /\ call[c].sentHeaders.ContentType = "application/json"
        /\ call[c].pc \in {"idle", "authorizing", "requesting", "resolved", "rejected"}
        /\ call[c].outcome = "ok" <=> call[c].pc = "resolved"

\* a request is in flight, sent while the snapshot showed no calls remaining in
\* the second window, and an earlier call resolved on such a snapshot
C23_Witness ==
    \E c \in Calls :
        /\ Len(rateLimits) = 4 /\ Exhausted
        /\ rateLimits[1].callsRemaining = Num(12) /\ rateLimits[2].callsRemaining = Num(0)
        /\ call[c].pc = "requesting" /\ call[c].entry = "valid" /\ call[c].nRequest = 1

\* C24: every resource request sent carries as its Authorization header the
\* token stored at the moment of sending, whatever headers the caller
\* supplied and on the retry after a 401 too.
C24_RequestCarriesStoredToken ==
    \A c \in Calls :
        call[c].nRequest >= 1 => call[c].sentHeader = call[c].storedHeader

\* the request a call stands for: the request body of its payload and the path
\* parameters of its options, completed with the client's
BodyOf(kind) ==
    CASE kind = "plain" -> DataObject("plain", PlainFields)
      [] kind = "model" -> DataObject("built", buildRequestData(SampleEntity))
      [] kind = "toJSON" -> DataObject("built", JsonFields)
      [] OTHER -> NoData

PathOf(callerPath) ==
    IF callerPath.own
    THEN [own |-> TRUE, Id |-> callerPath.Id, clientId |-> FirstConfig.clientId]
    ELSE [own |-> FALSE, clientId |-> FirstConfig.clientId]

\* C25: every resource request of a call, the one sent after an authorize()
\* before dispatch and the retry after a 401 included, has the method name, the
\* path parameters and the request body of the call, and a payload that is a
\* model instance or has toJSON is serialized once per call.
C25_DeferredAndRetriedRequestIsSameCall ==
    \A c \in Calls :
        /\ call[c].nRequest >= 1
              => /\ call[c].sent.method = call[c].opts.method
                 /\ call[c].sent.path = PathOf(call[c].opts.path)
                 /\ call[c].sent.data = BodyOf(call[c].opts.data)
        /\ call[c].pc # "idle"
              => call[c].nSerialize = IF call[c].opts.data \in {"model", "toJSON"} THEN 1 ELSE 0

\* a call with a model instance and path parameters was deferred by an
\* authorize(), answered 401 and retried
C25_Witness ==
    \E c \in Calls :
        /\ call[c].pc = "requesting" /\ call[c].entry = "noToken"
        /\ call[c].nAuthorize = 2 /\ call[c].n401 = 1 /\ call[c].nRequest = 2
        /\ call[c].opts.data = "model" /\ call[c].opts.path.own
        /\ call[c].nSerialize = 1
        /\ call[c].sent.data.kind = "built" /\ call[c].sent.path.Id = "a"

\* C26: when the authorize() made for a call, before dispatch or after a 401,
\* is refused or fails in transport, the call is rejected with that failure,
\* no resource request is sent after it, and the caller's callback is not
\* invoked.
C26_FailedAuthorizeRejectsWithoutRequest ==
    \A c \in Calls :
        call[c].outcome \in {"refused", "authError"}
            => /\ call[c].pc = "rejected"
               /\ call[c].outcome = "refused"
                     => /\ call[c].result.type = "object"
                        /\ TokenOutcome(call[c].result.val[1]) = "refused"
               /\ call[c].outcome = "authError" => call[c].result = Str("err.message")
               /\ call[c].nRequest = call[c].n401
               /\ call[c].nCallback = 0

\* a call with a callback was answered 401 and the authorize() of its retry
\* was refused
C26_Witness ==
    \E c \in Calls :
        /\ call[c].outcome = "refused" /\ call[c].pc = "rejected"
        /\ call[c].authFor = "retry" /\ call[c].n401 = 1 /\ call[c].nRequest = 1
        /\ call[c].opts.callback /\ call[c].nCallback = 0

\* C27: the caller's callback is invoked at most once per call; exactly once
\* when the call ends on a 2xx response or on a status other than 401 outside
\* 200..299; never on a 401, on a transport error or while the call waits.
C27_CallbackOncePerOutcome ==
    \A c \in Calls :
        /\ call[c].nCallback <= 1
        /\ (call[c].opts.callback /\ call[c].outcome \in {"ok", "error"})
              => (Settled(call[c]) /\ call[c].nCallback = 1)
        /\ call[c].outcome \notin {"ok", "error"} => call[c].nCallback = 0

\* a call with a callback was answered 401, retried and then answered with
\* an error status: the callback ran once, after the retry
C27_Witness ==
    \E c \in Calls :
        /\ call[c].opts.callback /\ call[c].n401 = 1 /\ call[c].nRequest = 2
        /\ call[c].outcome = "error" /\ call[c].pc = "rejected"
        /\ call[c].nCallback = 1

\* the authorize() requests of all calls are in flight together
Overlapping == \A c \in Calls : call[c].pc = "authorizing"

\* no authorize() is in flight, and the stored header and expiry are those of
\* the token response that completed last
AuthorizesComplete ==
    /\ \A c \in Calls : call[c].pc # "authorizing"
    /\ lastGrant.held
    /\ Authorization = lastGrant.data.token_type \o " " \o lastGrant.data.access_token
    /\ authorizationExpireTime = Num(lastGrant.at + lastGrant.data.expires_in.val * 1000)

\* C28: when the authorize() requests of several calls overlap, they all
\* complete with the stored header and expiry taken from the response that
\* completed last, and every call has sent its resource request and settles.
C28_OverlappingAuthorizesAllProceed ==
    Overlapping ~> (AuthorizesComplete /\ \A c \in Calls : call[c].nRequest >= 1 /\ Settled(call[c]))

\* the client a call is made through, where two clients are in use
ConfigOf(c) == IF c = 1 THEN FirstConfig ELSE SecondConfig

\* C29: every resource request issued through a client carries the token
\* granted to that client's own credentials and that client's own clientId in
\* its path, and the construction of a second client leaves the stored token
\* as it was.
C29_InstancesDoNotInterfere ==
    /\ [](\A c \in Calls :
            call[c].nRequest >= 1
                => /\ call[c].sentHeader = AuthorizationHeader(TokenFor(ConfigOf(c)))
                   /\ call[c].sent.path.clientId = ConfigOf(c).clientId)
    /\ [][other'.constructed /\ ~other.constructed => Authorization' = Authorization]_vars

\* the Id of the entity a value stands for
IdOf(value) == IF value.type = "model" THEN value.from.Id ELSE value.val[1].Id

\* the entity a call asks for: the one its path names, or the one it creates
AskedId(rec) == IF rec.opts.path.own THEN rec.opts.path.Id ELSE "a"

\* C30: with calls in flight together and answered in any order, the request
\* of a call names the entity the call asked for, and the call resolves with,
\* and passes to its callback, the payload of the response to that request:
\* the entity of the requested Id.
C30_EachCallGetsItsOwnResponse ==
    \A c \in Calls :
        /\ (call[c].nRequest >= 1 /\ call[c].opts.path.own)
              => call[c].sent.path.Id = call[c].opts.path.Id
        /\ Succeeded(call[c])
              => /\ IdOf(call[c].result) = AskedId(call[c])
                 /\ IdOf(call[c].result) = call[c].body.val[1].Id
                 /\ call[c].nCallback = 1
                 /\ call[c].callbackArgument = call[c].result

\* two calls made before any token was held, for different entities: one has
\* resolved with its entity while the request of the other is still in flight
C30_Witness ==
    \E c, d \in Calls :
        /\ c # d
        /\ call[c].entry = "noToken" /\ call[d].entry = "noToken"
        /\ call[c].opts.path.own /\ call[d].opts.path.own
        /\ call[c].opts.path.Id = "a" /\ call[d].opts.path.Id = "b"
        /\ call[c].pc = "requesting"
        /\ Succeeded(call[d]) /\ IdOf(call[d].result) = "b"
        /\ call[d].callbackArgument = call[d].result

\* the intervals of the four windows, in minutes
Intervals == <<15, 30, 60, 24 * 60>>

\* C31: at every moment, from the construction of the client onwards, the
\* snapshot is four windows of 15, 30, 60 and 1440 minutes in that order, each
\* with callsMade, callsRemaining and resetTimeMillis.
C31_SnapshotAlwaysFourWindows ==
    /\ Len(rateLimits) = 4
    /\ \A i \in 1 .. 4 :
          /\ rateLimits[i].minutesInterval = Intervals[i]
          /\ DOMAIN rateLimits[i]
                = {"minutesInterval", "callsMade", "callsRemaining", "resetTimeMillis"}

\* the elements of a comma-separated tuple, as numbers
RECURSIVE commaSplit(_, _)
commaSplit(chars, token) ==
    IF chars = <<>> THEN <<token>>
    ELSE IF chars[1] = "," THEN <<token>> \o commaSplit(Tail(chars), <<>>)
    ELSE commaSplit(Tail(chars), Append(token, chars[1]))

tupleOf(chars) ==
    LET tokens == commaSplit(chars, <<>>) IN [i \in 1 .. Len(tokens) |-> Number(tokens[i])]

\* the value a field of window i had before a response, the windows counting
\* from 0
Previous(i, field) == IF Len(rateLimits) = 0 THEN Num(0) ELSE rateLimits[i][field]

\* a call receives a 2xx response in this step
Receives2xx(c) ==
    /\ call[c].pc = "requesting"
    /\ call'[c].pc # "requesting" /\ call'[c].outcome = "ok"

\* C32: on a 2xx response the i-th element of each rate-limit header the
\* response carries is stored in the field of the i-th window, and the field
\* of a header the response does not carry keeps its value in all four
\* windows.
C32_AlignedElementsStored ==
    [][\A c \in Calls :
          Receives2xx(c)
              => /\ Len(rateLimits') = 4
                 /\ \A field \in RateFields :
                       LET header == HeaderOf(call'[c].lastHeaders, field) IN
                       /\ header.kind = "string"
                             => \A i \in 1 .. 4 :
                                   i <= Len(tupleOf(header.chars))
                                       => rateLimits'[i][field] = tupleOf(header.chars)[i]
                       /\ header.kind = "undefined"
                             => \A i \in 1 .. 4 : rateLimits'[i][field] = Previous(i, field)
      ]_vars

\* the fields whose nested object is flattened, per model type
Designated(class) ==
    CASE class = "PayIn" -> {"PaymentDetails", "ExecutionDetails"}
      [] class = "PayOut" -> {"MeanOfPaymentDetails"}
      [] class = "BankAccount" -> {"Details"}
      [] OTHER -> {}

\* the nested objects of an entity that are flattened, and the names of their
\* serialized fields
Flattened(entity) ==
    { k \in Designated(entity.class) : entity.fields[k].kind = "object" }
FlatKeys(entity) ==
    { j \in JsonKeys : \E k \in Flattened(entity) : entity.fields[k].json[j] # Undefined }

FullResponse(rec) == [type |-> "response", statusCode |-> rec.statusCode, body |-> rec.body]

\* C34: a call that set resolveWithFullResponse and was answered with a 2xx
\* status is resolved with the response object carrying the decoded payload
\* under body, not with a model built from it; answered with another status
\* than 2xx and 401 it is rejected with the response object carrying body;
\* both also when a 401 was retried before.
C34_FullResponseShape ==
    \A c \in Calls :
        (call[c].opts.resolveWithFullResponse /\ Settled(call[c]))
            => /\ call[c].outcome = "ok"
                    => (call[c].pc = "resolved" /\ call[c].result = FullResponse(call[c]))
               /\ call[c].outcome = "error"
                    => (call[c].pc = "rejected" /\ call[c].result = FullResponse(call[c]))

\* a call to a registered endpoint with a model class and the flag set, resolved
\* with the full response after the retry of a 401
C34_Witness ==
    \E c \in Calls :
        /\ call[c].opts.resolveWithFullResponse
        /\ ~IsManual(call[c].opts.method) /\ IsTruthy(call[c].opts.dataClass)
        /\ call[c].n401 = 1 /\ call[c].nRequest = 2
        /\ call[c].pc = "resolved" /\ call[c].outcome = "ok"
        /\ call[c].result = FullResponse(call[c])
        /\ ~isArray(call[c].body)

\* Calls that name no method or no url, among well-formed ones, in every token
\* state: the token endpoint grants or refuses, the clock passes the expiry.
ValidationCalls == {1}

ValidationNext ==
    \/ Tick
    \/ \E c \in ValidationCalls, o \in InvalidOptions \cup ProtocolOptions : Invoke(c, o)
    \/ \E c \in ValidationCalls, data \in TokenResponses :
          (GrantRenews(data) => Budget(c)) /\ AuthorizeResponse(c, data)
    \/ \E c \in ValidationCalls : AuthorizeError(c)
    \/ \E c \in ValidationCalls, statusCode \in ProtocolStatuses, data \in ProtocolPayloads :
          /\ StatusOutcome(statusCode) = "401" => Budget(c)
          /\ Answers(statusCode, data)
          /\ RequestResponse(c, statusCode, data, NoRateHeaders)
    \/ \E c \in ValidationCalls : RequestError(c)
    \/ \E c \in ValidationCalls : Return(c)

ValidationSpec == Init /\ [][ValidationNext]_vars

\* the call in progress names no method, or no url for a manual request
Invalid(rec) == rec.pc # "idle" /\ rec.opts \in InvalidOptions

\* C35: a call with no method name, or a manual 'post'/'get'/'put' call with no
\* url, is rejected as soon as it is made, with no token request and no
\* resource request sent for it, and no step taken while it is in progress
\* changes the stored token or its expiry, whatever token is stored.
C35_InvalidCallRejectedOffline ==
    /\ [](\A c \in ValidationCalls :
             Invalid(call[c])
                => /\ call[c].pc = "rejected"
                   /\ call[c].nAuthorize = 0 /\ call[c].nRequest = 0)
    /\ [][(\E c \in ValidationCalls : Invalid(call'[c]))
             => UNCHANGED <<Authorization, authorizationExpireTime>>]_vars

====
